---- MODULE Spec2Model ----
(***************************************************************************)
(* The four command-line utilities of src/Utility: audio_convertor.py,     *)
(* audio_details.py, audio_splitter.py and stt_error_rate.py.  One run of  *)
(* the model is one invocation of one utility: argument parsing, the       *)
(* operation, the printing of its result or of the error, and the exit.    *)
(*                                                                         *)
(* Python floats are modelled as exact rationals [n, d] in lowest terms;   *)
(* strings are sequences of one-character strings.                         *)
(***************************************************************************)
EXTENDS Integers, Sequences, FiniteSets, TLC

VARIABLES
    util,           \* which script runs
    caller,         \* "main": the script's __main__ block; "call": a direct call of split_file_by_size
    pc,             \* position in the script
    args,           \* the parsed arguments (argparse namespace), or the call's arguments
    argvOk,         \* what the command line looks like to argparse
    audio,          \* the AudioSegment returned by AudioSegment.from_file
    fileBytes,      \* os.path.getsize(infile)
    timestamp,      \* int(time.time())
    file_size_kb,   \* locals of split_file_by_size
    duration,
    ms_per_chunk,
    num_chunks,
    i,
    chunks,
    exported,       \* the files written by export(), in order
    file_details,   \* the mapping returned by get_audio_details
    error_rate,     \* the value returned by compute_wer
    werCalls,       \* how many times jiwer.wer was invoked
    raised,         \* the message of the exception in flight, "" when none
    returned,       \* TRUE once the operation returned normally
    stdout,
    stderr,
    exitStatus      \* -1 while the process runs

vars == <<util, caller, pc, args, argvOk, audio, fileBytes, timestamp, file_size_kb,
          duration, ms_per_chunk, num_chunks, i, chunks, exported, file_details,
          error_rate, werCalls, raised, returned, stdout, stderr, exitStatus>>

(***************************************************************************)
(* Bounds of the model.                                                    *)
(***************************************************************************)
MaxFrames == 6
MaxHalfKB == 6
MaxChunkSize == 3
MaxPathLen == 3
MaxTextLen == 3

(***************************************************************************)
(* Program constants.                                                      *)
(***************************************************************************)
BytesPerKB == 1024
MsPerSecond == 1000
BitsPerByte == 8
WerPercent == 100
EmptyWer == 100

(***************************************************************************)
(* Arithmetic: exact rationals for Python floats.                          *)
(***************************************************************************)
Abs(x) == IF x < 0 THEN -x ELSE x

RECURSIVE GCD(_, _)
GCD(a, b) == IF b = 0 THEN a ELSE GCD(b, a % b)

\* n/d in lowest terms with a positive denominator (d # 0)
Rat(n, d) ==
    LET s == IF d < 0 THEN -1 ELSE 1
        g == GCD(Abs(n), Abs(d))
    IN  [n |-> (s * n) \div g, d |-> (s * d) \div g]

RatOfInt(k) == [n |-> k, d |-> 1]

\* a / b for b # 0 (Python raises ZeroDivisionError when b = 0)
RatDiv(a, b) ==
    LET g1 == GCD(Abs(a.n), Abs(b.n))
        g2 == GCD(a.d, b.d)
        h1 == IF g1 = 0 THEN 1 ELSE g1
    IN  Rat((a.n \div h1) * (b.d \div g2), (a.d \div g2) * (b.n \div h1))

FloorMutant(r) == r.n \div r.d

\* math.ceil
Ceil(r) == -((-r.n) \div r.d)

(***************************************************************************)
(* Strings.                                                                *)
(***************************************************************************)
RECURSIVE StringsUpTo(_, _)
StringsUpTo(chars, len) ==
    IF len = 0 THEN {<<>>}
    ELSE LET shorter == StringsUpTo(chars, len - 1)
         IN  shorter \cup {Append(s, c) : s \in shorter, c \in chars}

RECURSIVE Repeat(_, _)
\* str * int: the text repeated k times, empty when k <= 0
Repeat(s, k) == IF k <= 0 THEN <<>> ELSE s \o Repeat(s, k - 1)

Digits == <<"0", "1", "2", "3", "4", "5", "6", "7", "8", "9">>
DigitChars == {Digits[k] : k \in 1..10}
DigitValue(c) == (CHOOSE k \in 1..10 : Digits[k] = c) - 1

RECURSIVE DigitsValue(_)
DigitsValue(s) ==
    IF s = <<>> THEN 0
    ELSE 10 * DigitsValue(SubSeq(s, 1, Len(s) - 1)) + DigitValue(s[Len(s)])

AllDigits(s) == s # <<>> /\ \A k \in 1..Len(s) : s[k] \in DigitChars

\* the texts int() accepts: an optional sign, then decimal digits
IsIntLiteral(s) ==
    \/ AllDigits(s)
    \/ Len(s) > 1 /\ s[1] = "-" /\ AllDigits(Tail(s))

IntLiteralValue(s) ==
    IF s[1] = "-" THEN -DigitsValue(Tail(s)) ELSE DigitsValue(s)

RECURSIVE IntToStr(_)
\* str() of a non-negative int
IntToStr(k) ==
    IF k < 10 THEN <<Digits[k + 1]>>
    ELSE IntToStr(k \div 10) \o <<Digits[(k % 10) + 1]>>

(***************************************************************************)
(* Python values that are either an int or a str.                          *)
(***************************************************************************)
PyInt(k) == [t |-> "int", v |-> k, s |-> <<>>]
PyStr(x) == [t |-> "str", v |-> 0, s |-> x]

\* int * x
PyMul(k, x) ==
    IF x.t = "int" THEN PyInt(k * x.v) ELSE PyStr(Repeat(x.s, k))

\* int(x) raises ValueError unless this holds
IntAccepts(x) == x.t = "int" \/ IsIntLiteral(x.s)

\* int(x)
IntOf(x) == IF x.t = "int" THEN x.v ELSE IntLiteralValue(x.s)

(***************************************************************************)
(* os.path                                                                 *)
(***************************************************************************)
LastIndexOf(s, c) ==
    LET hits == {k \in 1..Len(s) : s[k] = c}
    IN  IF hits = {} THEN 0 ELSE CHOOSE k \in hits : \A h \in hits : h <= k

\* os.path.dirname, os.path.basename: split at the last "/"
DirName(p) ==
    LET k == LastIndexOf(p, "/")
        head == SubSeq(p, 1, k)
    IN  IF head # <<>> /\ \E j \in 1..Len(head) : head[j] # "/"
        THEN SubSeq(head, 1, CHOOSE j \in 1..Len(head) :
                                /\ head[j] # "/"
                                /\ \A h \in (j + 1)..Len(head) : head[h] = "/")
        ELSE head

BaseName(p) == SubSeq(p, LastIndexOf(p, "/") + 1, Len(p))

\* os.path.splitext: the extension starts at the last dot, unless only dots
\* precede that dot in the name
SplitExt(p) ==
    LET sep == LastIndexOf(p, "/")
        dot == LastIndexOf(p, ".")
    IN  IF dot > sep /\ \E k \in (sep + 1)..(dot - 1) : p[k] # "."
        THEN <<SubSeq(p, 1, dot - 1), SubSeq(p, dot, Len(p))>>
        ELSE <<p, <<>>>>

RECURSIVE LStripDot(_)
\* str.lstrip(".")
LStripDot(s) == IF s # <<>> /\ s[1] = "." THEN LStripDot(Tail(s)) ELSE s

KeepDotMutant(ext) == ext

\* extension.lstrip(".") as the utilities apply it
Extension(ext) == LStripDot(ext)

(***************************************************************************)
(* audio_splitter.py: split_file_by_size                                   *)
(***************************************************************************)
NoRat == [n |-> 0, d |-> 1]

\* os.path.getsize(infile) / 1024
FileSizeKb(bytes) == Rat(bytes, BytesPerKB)

\* audio.duration_seconds * 1000, duration_seconds being frame_count / frame_rate
DurationMs(a) == Rat(a.frame_count * MsPerSecond, a.frame_rate)

NoCeilMutant(dur, size, chunk_size) == PyMul(FloorMutant(RatDiv(dur, size)), chunk_size)

AtLeastOneMutant(dur, size, chunk_size) ==
    LET q == Ceil(RatDiv(dur, size))
    IN  PyMul(IF q < 1 THEN 1 ELSE q, chunk_size)

\* ceil(duration / file_size_kb) * chunk_size, the argument of int() on line 26
ChunkProduct(dur, size, chunk_size) == PyMul(Ceil(RatDiv(dur, size)), chunk_size)

FloorChunksMutant(dur, ms) == FloorMutant(RatDiv(dur, RatOfInt(ms)))

\* int(ceil(duration / ms_per_chunk)) for ms # 0
NumChunks(dur, ms) == Ceil(RatDiv(dur, RatOfInt(ms)))

\* start and end of the slice of loop index k
ChunkStart(k, ms) == k * ms
ChunkEnd(k, ms) == (k + 1) * ms

\* the index written into the path of loop index k
ChunkIndex(k) == k + 1

\* f"{directory}{timestamp}_{file_name}_chunk_{i+1}.{extension}"
ChunkPath(directory, ts, file_name, k, extension) ==
    directory \o IntToStr(ts) \o <<"_">> \o file_name
        \o <<"_", "c", "h", "u", "n", "k", "_">> \o IntToStr(ChunkIndex(k))
        \o <<".">> \o extension

SplitFileName(infile) == SplitExt(BaseName(infile))[1]
SplitExtension(infile) == Extension(SplitExt(BaseName(infile))[2])

Line(kind, text) == [kind |-> kind, text |-> text]

\* an exception leaves the function: to the except clause of __main__, or to the caller
Raise(msg) ==
    /\ raised' = msg
    /\ pc' = IF caller = "main" THEN "except" ELSE "done"

\* audio = AudioSegment.from_file(infile)
SplitDecode ==
    /\ util = "splitter" /\ pc = "try"
    /\ IF audio.ok
       THEN pc' = "plan" /\ UNCHANGED raised
       ELSE Raise("could not decode")
    /\ UNCHANGED <<util, caller, args, argvOk, audio, fileBytes, timestamp, file_size_kb,
                   duration, ms_per_chunk, num_chunks, i, chunks, exported, file_details,
                   error_rate, werCalls, returned, stdout, stderr, exitStatus>>

\* lines 24-33: the chunk plan
SplitPlan ==
    /\ util = "splitter" /\ pc = "plan"
    /\ file_size_kb' = FileSizeKb(fileBytes)
    /\ duration' = DurationMs(audio)
    /\ IF file_size_kb'.n = 0
       THEN /\ Raise("float division by zero")
            /\ UNCHANGED <<ms_per_chunk, num_chunks>>
       ELSE LET product == ChunkProduct(duration', file_size_kb', args.chunk_size)
            IN  IF ~IntAccepts(product)
                THEN /\ Raise("invalid literal for int() with base 10")
                     /\ UNCHANGED <<ms_per_chunk, num_chunks>>
                ELSE /\ ms_per_chunk' = IntOf(product)
                     /\ IF ms_per_chunk' = 0
                        THEN /\ Raise("float division by zero")
                             /\ UNCHANGED num_chunks
                        ELSE /\ num_chunks' = NumChunks(duration', ms_per_chunk')
                             /\ pc' = "loop"
                             /\ UNCHANGED raised
    /\ i' = 0
    /\ chunks' = <<>>
    /\ UNCHANGED <<util, caller, args, argvOk, audio, fileBytes, timestamp, exported,
                   file_details, error_rate, werCalls, returned, stdout, stderr, exitStatus>>

\* one iteration of the loop of lines 34-40 whose export succeeds
SplitExport ==
    /\ util = "splitter" /\ pc = "loop" /\ i < num_chunks
    /\ LET chunk_path == ChunkPath(args.tmp_dir, timestamp, SplitFileName(args.infile),
                                   i, SplitExtension(args.infile))
       IN  /\ exported' = Append(exported,
                                 [path |-> chunk_path,
                                  start |-> ChunkStart(i, ms_per_chunk),
                                  end |-> ChunkEnd(i, ms_per_chunk),
                                  format |-> SplitExtension(args.infile)])
           /\ chunks' = Append(chunks, chunk_path)
    /\ i' = i + 1
    /\ UNCHANGED <<util, caller, pc, args, argvOk, audio, fileBytes, timestamp,
                   file_size_kb, duration, ms_per_chunk, num_chunks, file_details,
                   error_rate, werCalls, raised, returned, stdout, stderr, exitStatus>>

SwallowedExportMutant ==
    /\ util = "splitter" /\ pc = "loop" /\ i < num_chunks
    /\ raised' = "could not encode"
    /\ pc' = IF caller = "main" THEN "print" ELSE "done"
    /\ UNCHANGED <<util, caller, args, argvOk, audio, fileBytes, timestamp, file_size_kb,
                   duration, ms_per_chunk, num_chunks, i, chunks, exported, file_details,
                   error_rate, werCalls, returned, stdout, stderr, exitStatus>>

\* one iteration whose chunk.export raises
SplitExportFails ==
    /\ util = "splitter" /\ pc = "loop" /\ i < num_chunks
    /\ Raise("could not encode")
    /\ UNCHANGED <<util, caller, args, argvOk, audio, fileBytes, timestamp, file_size_kb,
                   duration, ms_per_chunk, num_chunks, i, chunks, exported, file_details,
                   error_rate, werCalls, returned, stdout, stderr, exitStatus>>

\* return chunks
SplitReturn ==
    /\ util = "splitter" /\ pc = "loop" /\ i >= num_chunks
    /\ returned' = TRUE
    /\ pc' = IF caller = "main" THEN "print" ELSE "done"
    /\ UNCHANGED <<util, caller, args, argvOk, audio, fileBytes, timestamp, file_size_kb,
                   duration, ms_per_chunk, num_chunks, i, chunks, exported, file_details,
                   error_rate, werCalls, raised, stdout, stderr, exitStatus>>

\* lines 53-55: for chunk in chunks: print(chunk); exit(0)
SplitPrint ==
    /\ util = "splitter" /\ pc = "print"
    /\ stdout' = stdout \o [k \in 1..Len(chunks) |-> Line("path", chunks[k])]
    /\ exitStatus' = 0
    /\ pc' = "exited"
    /\ UNCHANGED <<util, caller, args, argvOk, audio, fileBytes, timestamp, file_size_kb,
                   duration, ms_per_chunk, num_chunks, i, chunks, exported, file_details,
                   error_rate, werCalls, raised, returned, stderr>>

(***************************************************************************)
(* argparse: parser.parse_args() of every script, outside its try block.   *)
(* A missing required flag or a value its type= rejects ends the process in *)
(* ArgumentParser.error: usage and message on stderr, exit status 2.       *)
(***************************************************************************)
UsageExitStatus == 2

ParseArgs(u) ==
    /\ util = u /\ caller = "main" /\ pc = "parse"
    /\ IF argvOk = "ok"
       THEN /\ pc' = "try"
            /\ UNCHANGED <<stderr, exitStatus>>
       ELSE /\ stderr' = Append(stderr, Line("usage", argvOk))
            /\ exitStatus' = UsageExitStatus
            /\ pc' = "exited"
    /\ UNCHANGED <<util, caller, args, argvOk, audio, fileBytes, timestamp, file_size_kb,
                   duration, ms_per_chunk, num_chunks, i, chunks, exported, file_details,
                   error_rate, werCalls, raised, returned, stdout>>

SplitParse == ParseArgs("splitter")
ConvertParse == ParseArgs("convertor")
DetailsParse == ParseArgs("details")
WerParse == ParseArgs("wer")

ExceptExitsZeroMutant(u) ==
    /\ util = u /\ pc = "except"
    /\ stdout' = Append(stdout, Line("error", raised))
    /\ exitStatus' = 0
    /\ pc' = "exited"
    /\ UNCHANGED <<util, caller, args, argvOk, audio, fileBytes, timestamp, file_size_kb,
                   duration, ms_per_chunk, num_chunks, i, chunks, exported, file_details,
                   error_rate, werCalls, raised, returned, stderr>>

\* except Exception as e: print(e), then exit(1)
ExceptClause(u) ==
    /\ util = u /\ pc = "except"
    /\ stdout' = Append(stdout, Line("error", raised))
    /\ exitStatus' = 1
    /\ pc' = "exited"
    /\ UNCHANGED <<util, caller, args, argvOk, audio, fileBytes, timestamp, file_size_kb,
                   duration, ms_per_chunk, num_chunks, i, chunks, exported, file_details,
                   error_rate, werCalls, raised, returned, stderr>>

\* audio_splitter.py, lines 56-58
SplitExcept == ExceptClause("splitter")

(***************************************************************************)
(* audio_convertor.py                                                      *)
(***************************************************************************)
\* convert_audio_file: from_file, set_channels when channels are given, export
ConvertRun ==
    /\ util = "convertor" /\ pc = "try"
    /\ IF audio.ok
       THEN /\ exported' = Append(exported,
                                  [path |-> args.outfile,
                                   format |-> args.outfile_format,
                                   channels |-> IF args.channels.given
                                                THEN args.channels.v
                                                ELSE audio.channels])
            /\ returned' = TRUE
            /\ pc' = "exit0"
            /\ UNCHANGED raised
       ELSE /\ Raise("could not decode")
            /\ UNCHANGED <<exported, returned>>
    /\ UNCHANGED <<util, caller, args, argvOk, audio, fileBytes, timestamp, file_size_kb,
                   duration, ms_per_chunk, num_chunks, i, chunks, file_details,
                   error_rate, werCalls, stdout, stderr, exitStatus>>

\* set_channels or export raises
ConvertEncodeFails ==
    /\ util = "convertor" /\ pc = "try" /\ audio.ok
    /\ Raise("could not encode")
    /\ UNCHANGED <<util, caller, args, argvOk, audio, fileBytes, timestamp, file_size_kb,
                   duration, ms_per_chunk, num_chunks, i, chunks, exported, file_details,
                   error_rate, werCalls, returned, stdout, stderr, exitStatus>>

\* line 35: exit(0)
ConvertExit ==
    /\ util = "convertor" /\ pc = "exit0"
    /\ exitStatus' = 0
    /\ pc' = "exited"
    /\ UNCHANGED <<util, caller, args, argvOk, audio, fileBytes, timestamp, file_size_kb,
                   duration, ms_per_chunk, num_chunks, i, chunks, exported, file_details,
                   error_rate, werCalls, raised, returned, stdout, stderr>>

ConvertExcept == ExceptClause("convertor")


(***************************************************************************)
(* audio_details.py                                                        *)
(***************************************************************************)
\* mimetypes.guess_type: the type registered for the extension, None for the
\* others; the model registers the one extension ".a"
GuessType(filepath) ==
    IF SplitExt(filepath)[2] = <<".", "a">> THEN "audio/a" ELSE "None"

\* sample_rate = audio_file.frame_rate
SampleRate(a) == a.frame_rate

\* bit_rate = audio_file.frame_rate * audio_file.frame_width * 8
BitRate(a) == a.frame_rate * a.frame_width * BitsPerByte

GetAudioDetails(filepath, a, bytes) ==
    LET basename == BaseName(filepath)
        split == SplitExt(basename)
    IN  [filepath |-> filepath,
         dirpath |-> DirName(filepath),
         basename |-> basename,
         filename |-> split[1],
         extension |-> Extension(split[2]),
         mime_type |-> GuessType(filepath),
         filesize |-> FileSizeKb(bytes),
         duration |-> Rat(a.frame_count, a.frame_rate),
         bit_rate |-> BitRate(a),
         sample_rate |-> SampleRate(a),
         channels |-> a.channels]

DetailKeys == <<"filepath", "dirpath", "basename", "filename", "extension", "mime_type",
                "filesize", "duration", "bit_rate", "sample_rate", "channels">>

\* audio_details = get_audio_details(args.infile)
DetailsRun ==
    /\ util = "details" /\ pc = "try"
    /\ IF audio.ok
       THEN /\ file_details' = GetAudioDetails(args.infile, audio, fileBytes)
            /\ returned' = TRUE
            /\ pc' = "print"
            /\ UNCHANGED raised
       ELSE /\ Raise("could not decode")
            /\ UNCHANGED <<file_details, returned>>
    /\ UNCHANGED <<util, caller, args, argvOk, audio, fileBytes, timestamp, file_size_kb,
                   duration, ms_per_chunk, num_chunks, i, chunks, exported,
                   error_rate, werCalls, stdout, stderr, exitStatus>>

\* lines 45-47: one key:value line per field, then exit(0)
DetailsPrint ==
    /\ util = "details" /\ pc = "print"
    /\ stdout' = stdout \o [k \in 1..Len(DetailKeys) |->
                               Line("field", <<DetailKeys[k], file_details[DetailKeys[k]]>>)]
    /\ exitStatus' = 0
    /\ pc' = "exited"
    /\ UNCHANGED <<util, caller, args, argvOk, audio, fileBytes, timestamp, file_size_kb,
                   duration, ms_per_chunk, num_chunks, i, chunks, exported, file_details,
                   error_rate, werCalls, raised, returned, stderr>>

\* lines 48-51: except prints the error and falls through to exit(1)
DetailsExcept == ExceptClause("details")

(***************************************************************************)
(* stt_error_rate.py                                                       *)
(***************************************************************************)
RECURSIVE Words(_)
\* the words of a text: its maximal runs of non-blank characters
Words(s) ==
    IF s = <<>> THEN <<>>
    ELSE IF s[1] = " " THEN Words(Tail(s))
    ELSE LET stops == {k \in 1..Len(s) : s[k] = " "}
             stop == IF stops = {} THEN Len(s) + 1
                     ELSE CHOOSE k \in stops : \A h \in stops : k <= h
         IN  <<SubSeq(s, 1, stop - 1)>> \o Words(SubSeq(s, stop, Len(s)))

Min(a, b) == IF a <= b THEN a ELSE b

RECURSIVE EditDistance(_, _)
\* word-level Levenshtein distance: substitutions, deletions and insertions
EditDistance(r, h) ==
    IF r = <<>> THEN Len(h)
    ELSE IF h = <<>> THEN Len(r)
    ELSE IF Head(r) = Head(h) THEN EditDistance(Tail(r), Tail(h))
    ELSE 1 + Min(EditDistance(Tail(r), Tail(h)),
                 Min(EditDistance(Tail(r), h), EditDistance(r, Tail(h))))

\* jiwer.wer: the edit distance over the number of reference words; jiwer
\* raises ValueError for a reference without words
WerDefined(reference) == Words(reference) # <<>>
Wer(reference, hypothesis) ==
    Rat(EditDistance(Words(reference), Words(hypothesis)), Len(Words(reference)))

RatTimes(r, k) == Rat(r.n * k, r.d)

\* line 16: len(reference) == 0 or len(hypothesis) == 0
EitherEmpty(reference, hypothesis) == Len(reference) = 0 \/ Len(hypothesis) = 0

NoScaleMutant(ratio) == ratio

\* line 20: error_rate * 100
Percent(ratio) == RatTimes(ratio, WerPercent)

\* compute_wer
WerRun ==
    /\ util = "wer" /\ pc = "try"
    /\ IF EitherEmpty(args.reference, args.hypothesis)
       THEN /\ error_rate' = RatOfInt(EmptyWer)
            /\ returned' = TRUE
            /\ pc' = "print"
            /\ UNCHANGED <<werCalls, raised>>
       ELSE /\ werCalls' = werCalls + 1
            /\ IF WerDefined(args.reference)
               THEN /\ error_rate' = Percent(Wer(args.reference, args.hypothesis))
                    /\ returned' = TRUE
                    /\ pc' = "print"
                    /\ UNCHANGED raised
               ELSE /\ Raise("one or more references are empty strings")
                    /\ UNCHANGED <<error_rate, returned>>
    /\ UNCHANGED <<util, caller, args, argvOk, audio, fileBytes, timestamp, file_size_kb,
                   duration, ms_per_chunk, num_chunks, i, chunks, exported, file_details,
                   stdout, stderr, exitStatus>>

\* jiwer versions that reject a hypothesis without words raise there too
WerHypothesisRejected ==
    /\ util = "wer" /\ pc = "try"
    /\ ~EitherEmpty(args.reference, args.hypothesis)
    /\ Words(args.hypothesis) = <<>>
    /\ werCalls' = werCalls + 1
    /\ Raise("one or more hypotheses are empty strings")
    /\ UNCHANGED <<util, caller, args, argvOk, audio, fileBytes, timestamp, file_size_kb,
                   duration, ms_per_chunk, num_chunks, i, chunks, exported, file_details,
                   error_rate, returned, stdout, stderr, exitStatus>>

\* lines 32-33: print(error_rate); exit(0)
WerPrint ==
    /\ util = "wer" /\ pc = "print"
    /\ stdout' = Append(stdout, Line("value", error_rate))
    /\ exitStatus' = 0
    /\ pc' = "exited"
    /\ UNCHANGED <<util, caller, args, argvOk, audio, fileBytes, timestamp, file_size_kb,
                   duration, ms_per_chunk, num_chunks, i, chunks, exported, file_details,
                   error_rate, werCalls, raised, returned, stderr>>

WerExcept == ExceptClause("wer")

(***************************************************************************)
(* The invocations the model explores.                                     *)
(***************************************************************************)
FrameRates == {1000, 3000}
FrameWidths == {1, 2}
ChannelCounts == {1, 2}
Timestamps == {9, 10}
PathChars == {"a", ".", "/"}
TextChars == {"a", "b", " "}

Paths == StringsUpTo(PathChars, MaxPathLen) \ {<<>>}
Texts == StringsUpTo(TextChars, MaxTextLen)
SplitFiles == {<<"a", ".", "a">>, <<"a">>, <<"d", "/", "a", ".", "a">>, <<".", "a">>}
Dirs == {<<>>, <<"t", "/">>}

NoAudio == [ok |-> FALSE, frame_count |-> 0, frame_rate |-> 1000, frame_width |-> 1,
            channels |-> 1]
Decoded(frames, rate, width, chans) ==
    [ok |-> TRUE, frame_count |-> frames, frame_rate |-> rate, frame_width |-> width,
     channels |-> chans]

\* the chunk sizes a caller passes as int, and the texts the command line gives
ChunkInts == {PyInt(k) : k \in (0 - 1)..MaxChunkSize}
ChunkTexts == {PyStr(IntToStr(k)) : k \in 0..MaxChunkSize}
                  \cup {PyStr(<<"-", "1">>), PyStr(<<"1", "0">>), PyStr(<<"x">>)}

\* 10,000 ms of audio in a file of 1000 KB, split with chunk_size = 100
ScenarioAudio == Decoded(10000, 1000, 2, 1)
ScenarioBytes == 1000 * BytesPerKB
ScenarioChunk == PyInt(100)

\* the repeated text of a str chunk size stays within nine digits
Representable(a, bytes, chunk_size) ==
    IF chunk_size.t = "int" \/ bytes = 0 THEN TRUE
    ELSE Len(chunk_size.s) * Ceil(RatDiv(DurationMs(a), FileSizeKb(bytes))) <= 9

Start(u, c, ok, a, au, bytes, ts) ==
    /\ util = u /\ caller = c
    /\ pc = IF c = "main" THEN "parse" ELSE "try"
    /\ argvOk = ok /\ args = a /\ audio = au /\ fileBytes = bytes /\ timestamp = ts
    /\ file_size_kb = NoRat /\ duration = NoRat
    /\ ms_per_chunk = 0 /\ num_chunks = 0 /\ i = 0
    /\ chunks = <<>> /\ exported = <<>>
    /\ file_details = [filepath |-> <<>>]
    /\ error_rate = NoRat /\ werCalls = 0
    /\ raised = "" /\ returned = FALSE
    /\ stdout = <<>> /\ stderr = <<>> /\ exitStatus = -1

SplitArgs(infile, dir, chunk_size) ==
    [infile |-> infile, tmp_dir |-> dir, chunk_size |-> chunk_size]

InitSplit ==
    \/ \E c \in {"main", "call"}, infile \in SplitFiles, dir \in Dirs, ts \in Timestamps,
          au \in {NoAudio} \cup {Decoded(f, r, 2, 1) : f \in 0..MaxFrames, r \in FrameRates},
          bytes \in {(BytesPerKB \div 2) * k : k \in 0..MaxHalfKB} :
          \E chunk_size \in IF c = "main" THEN ChunkTexts ELSE ChunkInts :
              /\ Representable(au, bytes, chunk_size)
              /\ Start("splitter", c, "ok", SplitArgs(infile, dir, chunk_size), au, bytes, ts)
    \/ \E infile \in SplitFiles, dir \in Dirs, ts \in Timestamps :
          Start("splitter", "call", "ok", SplitArgs(infile, dir, ScenarioChunk),
                ScenarioAudio, ScenarioBytes, ts)
    \/ Start("splitter", "main", "missing", [infile |-> <<>>], NoAudio, 0, 9)

InitConvert ==
    \/ \E outfile \in {<<"b", ".", "b">>}, format \in {<<"b">>, <<"x">>},
          channels \in {[given |-> FALSE, v |-> 0]}
                           \cup {[given |-> TRUE, v |-> k] : k \in ChannelCounts},
          au \in {NoAudio} \cup {Decoded(f, r, 2, k) : f \in {0, MaxFrames}, r \in FrameRates,
                                                       k \in ChannelCounts} :
          Start("convertor", "main", "ok",
                [infile |-> <<"a", ".", "a">>, outfile |-> outfile,
                 outfile_format |-> format, channels |-> channels], au, BytesPerKB, 9)
    \/ \E bad \in {"missing", "invalid int"} :
          Start("convertor", "main", bad, [infile |-> <<>>], NoAudio, 0, 9)

InitDetails ==
    \/ \E infile \in Paths,
          au \in {NoAudio} \cup {Decoded(f, r, w, k) : f \in {0, MaxFrames}, r \in FrameRates,
                                                       w \in FrameWidths, k \in ChannelCounts},
          bytes \in {0, (BytesPerKB \div 2) * MaxHalfKB} :
          Start("details", "main", "ok", [infile |-> infile], au, bytes, 9)
    \/ Start("details", "main", "missing", [infile |-> <<>>], NoAudio, 0, 9)

InitWer ==
    \/ \E reference \in Texts, hypothesis \in Texts :
          Start("wer", "main", "ok", [reference |-> reference, hypothesis |-> hypothesis],
                NoAudio, 0, 9)
    \/ Start("wer", "main", "missing", [reference |-> <<>>, hypothesis |-> <<>>],
             NoAudio, 0, 9)

Init == InitSplit \/ InitConvert \/ InitDetails \/ InitWer

NextSplit ==
    \/ SplitParse
    \/ SplitDecode
    \/ SplitPlan
    \/ SplitExport
    \/ SplitExportFails
    \/ SplitReturn
    \/ SplitPrint
    \/ SplitExcept

NextConvert ==
    \/ ConvertParse
    \/ ConvertRun
    \/ ConvertEncodeFails
    \/ ConvertExit
    \/ ConvertExcept

NextDetails ==
    \/ DetailsParse
    \/ DetailsRun
    \/ DetailsPrint
    \/ DetailsExcept

NextWer ==
    \/ WerParse
    \/ WerRun
    \/ WerHypothesisRejected
    \/ WerPrint
    \/ WerExcept

Next == NextSplit \/ NextConvert \/ NextDetails \/ NextWer

Spec == Init /\ [][Next]_vars
SpecSplit == InitSplit /\ [][NextSplit]_vars
SpecDetails == InitDetails /\ [][NextDetails]_vars
SpecWer == InitWer /\ [][NextWer]_vars

(***************************************************************************)
(* Properties.                                                             *)
(***************************************************************************)
Splitting == util = "splitter"

\* the plan of lines 24-27 was computed without an exception
Planned == Splitting /\ (pc = "loop" \/ returned \/ raised = "could not encode")

\* a decodable input of positive duration and positive size, and a positive int chunk_size
PositiveIntInput ==
    /\ Splitting /\ audio.ok /\ audio.frame_count > 0 /\ fileBytes > 0
    /\ args.chunk_size.t = "int" /\ args.chunk_size.v > 0

\* the decimal text of a positive integer as --chunk_size
PositiveTextInput ==
    /\ Splitting /\ caller = "main" /\ argvOk = "ok"
    /\ audio.ok /\ audio.frame_count > 0 /\ fileBytes > 0
    /\ AllDigits(args.chunk_size.s) /\ DigitsValue(args.chunk_size.s) > 0

ExpectedPath(k) ==
    args.tmp_dir \o IntToStr(timestamp) \o <<"_">> \o SplitExt(BaseName(args.infile))[1]
        \o <<"_", "c", "h", "u", "n", "k", "_">> \o IntToStr(k) \o <<".">>
        \o LStripDot(SplitExt(BaseName(args.infile))[2])

PathLines == {k \in 1..Len(stdout) : stdout[k].kind = "path"}

\* C1: for positive duration, positive file size and a positive int chunk_size
\* the plan is computed, chunk 1 starts at 0 ms, chunk k+1 starts where chunk k
\* ends, at k * ms_per_chunk, and num_chunks * ms_per_chunk covers the duration.
C1_ChunksCoverInput ==
    PositiveIntInput =>
        /\ pc \in {"loop", "print", "except", "done", "exited"} => Planned
        /\ Planned =>
              /\ ms_per_chunk > 0
              /\ num_chunks * ms_per_chunk * duration.d >= duration.n
              /\ \A k \in 1..Len(exported) :
                    /\ exported[k].start = (k - 1) * ms_per_chunk
                    /\ exported[k].end = k * ms_per_chunk
                    /\ k > 1 => exported[k].start = exported[k - 1].end
              /\ returned =>
                    /\ Len(exported) = num_chunks
                    /\ exported[1].start = 0
                    /\ exported[num_chunks].end * duration.d >= duration.n

C1_Witness ==
    /\ PositiveIntInput /\ returned /\ Len(exported) >= 2
    /\ duration.d > 1
    /\ num_chunks * ms_per_chunk * duration.d > duration.n

\* C2: for positive duration, file size and chunk_size, ms_per_chunk is
\* chunk_size times the least integer q >= duration_ms / file_size_kb, and
\* num_chunks is the least integer n >= duration_ms / ms_per_chunk; 10,000 ms in
\* 1000 KB with chunk_size 100 gives ms_per_chunk 1000 and 10 chunks of 1000 ms.
C2_PlanFormula ==
    PositiveIntInput =>
        /\ pc \in {"loop", "print", "except", "done", "exited"} => Planned
        /\ Planned =>
              /\ \E q \in 1..ms_per_chunk :
                    /\ ms_per_chunk = q * args.chunk_size.v
                    /\ duration.n * file_size_kb.d <= q * duration.d * file_size_kb.n
                    /\ duration.n * file_size_kb.d > (q - 1) * duration.d * file_size_kb.n
              /\ duration.n <= num_chunks * ms_per_chunk * duration.d
              /\ duration.n > (num_chunks - 1) * ms_per_chunk * duration.d
              /\ duration.n * audio.frame_rate = audio.frame_count * MsPerSecond * duration.d
              /\ file_size_kb.n * BytesPerKB = fileBytes * file_size_kb.d
        /\ (Planned /\ audio = ScenarioAudio /\ fileBytes = ScenarioBytes
                /\ args.chunk_size = ScenarioChunk) =>
              /\ ms_per_chunk = 1000
              /\ num_chunks = 10
              /\ returned =>
                    /\ Len(exported) = 10
                    /\ \A k \in 1..10 : exported[k].end - exported[k].start = 1000

C2_Witness ==
    /\ PositiveIntInput /\ returned
    /\ audio = ScenarioAudio /\ fileBytes = ScenarioBytes /\ args.chunk_size = ScenarioChunk
    /\ Len(exported) = 10

\* C3: --chunk_size N, the decimal text of a positive integer, plans the same
\* ms_per_chunk and the same number of chunks as the call with the integer N.
C3_CommandLinePlansAsInteger ==
    (PositiveTextInput /\ pc \in {"loop", "print", "except", "exited"}) =>
        LET n == PyInt(DigitsValue(args.chunk_size.s))
            ms == IntOf(PyMul(Ceil(RatDiv(duration, file_size_kb)), n))
        IN  /\ Planned
            /\ ms_per_chunk = ms
            /\ num_chunks = Ceil(RatDiv(duration, RatOfInt(ms)))

\* C4: on success the function returns exactly num_chunks paths, the k-th being
\* {directory}{timestamp}_{name}_chunk_{k}.{extension}, the path the slice
\* [(k-1) * ms_per_chunk, k * ms_per_chunk) was exported to.
C4_ReturnsNumChunksPaths ==
    (Splitting /\ returned) =>
        /\ Len(chunks) = num_chunks
        /\ Len(exported) = num_chunks
        /\ \A k \in 1..Len(chunks) :
              /\ chunks[k] = ExpectedPath(k)
              /\ exported[k].path = chunks[k]
              /\ exported[k].start = (k - 1) * ms_per_chunk
              /\ exported[k].end = k * ms_per_chunk

\* the chunk size is zero or negative, as an int or as its decimal text
NonPositiveChunkSize ==
    /\ Splitting /\ argvOk = "ok"
    /\ IF args.chunk_size.t = "int" THEN args.chunk_size.v <= 0
       ELSE IsIntLiteral(args.chunk_size.s) /\ IntLiteralValue(args.chunk_size.s) <= 0

\* C5: a zero or negative chunk size ends the invocation in an error (message
\* printed, exit status 1) with no chunk count, no export and no returned list.
C5_NonPositiveChunkSizeRejected ==
    NonPositiveChunkSize =>
        /\ pc \notin {"loop", "print"}
        /\ ~returned
        /\ exported = <<>>
        /\ pc = "done" => raised # ""
        /\ pc = "exited" =>
              /\ exitStatus = 1
              /\ Len(stdout) = 1 /\ stdout[1].kind = "error"

\* the input's file size is zero or its duration is zero
DegenerateInput ==
    /\ Splitting /\ argvOk = "ok"
    /\ fileBytes = 0 \/ (audio.ok /\ audio.frame_count = 0)

\* C6: with a file size of zero or a duration of zero the splitter fails with an
\* error (message printed, exit status 1): no chunk count is produced, no chunk
\* is exported and no path is printed.
C6_DegenerateInputFails ==
    DegenerateInput =>
        /\ pc \notin {"loop", "print"}
        /\ ~returned
        /\ num_chunks = 0 /\ chunks = <<>> /\ exported = <<>>
        /\ PathLines = {}
        /\ pc = "done" => raised # ""
        /\ pc = "exited" =>
              /\ exitStatus = 1
              /\ Len(stdout) = 1 /\ stdout[1].kind = "error" /\ stdout[1].text = raised
              /\ raised # ""

C6_Witness ==
    /\ DegenerateInput /\ pc = "exited" /\ exitStatus = 1
    /\ audio.ok /\ audio.frame_count = 0 /\ fileBytes > 0
    /\ stdout = <<Line("error", "invalid literal for int() with base 10")>>

C8_WerPercentage ==
    (util = "wer" /\ argvOk = "ok" /\ pc \in {"print", "except", "exited"}) =>
        LET r == Words(args.reference)
            h == Words(args.hypothesis)
        IN  /\ (args.reference = <<>> \/ args.hypothesis = <<>>) =>
                  returned /\ werCalls = 0 /\ error_rate = [n |-> 100, d |-> 1]
            /\ (args.reference # <<>> /\ args.hypothesis # <<>>) =>
                  /\ werCalls = 1
                  /\ returned => error_rate.n * Len(r) = 100 * EditDistance(r, h) * error_rate.d
                  /\ returned <=> raised = ""
            /\ (args.reference = args.hypothesis /\ r # <<>>) =>
                  returned /\ error_rate.n = 0
            /\ returned => error_rate.n >= 0 /\ error_rate.d > 0

C8_Witness ==
    /\ util = "wer" /\ pc = "exited" /\ returned /\ werCalls = 1
    /\ error_rate = [n |-> 50, d |-> 1]

\* C9: the extension reported by get_audio_details never begins with ".", and
\* bit_rate equals the reported sample_rate * frame_width * 8.
C9_DetailsFields ==
    (util = "details" /\ returned) =>
        /\ file_details.extension = <<>> \/ file_details.extension[1] # "."
        /\ file_details.bit_rate = file_details.sample_rate * audio.frame_width * 8

C9_Witness ==
    /\ util = "details" /\ returned /\ pc = "exited"
    /\ SplitExt(file_details.basename)[2] # <<>>
    /\ file_details.extension = <<"a">>

\* C10: the splitter command prints no chunk path unless every chunk was
\* exported: a run in which decoding, planning or an export raised prints the
\* error message alone and exits 1, also when chunks were already written; a
\* successful run prints the paths of chunks 1..num_chunks in order, one a line.
C10_PathsOnlyAfterAllExports ==
    (Splitting /\ caller = "main" /\ argvOk = "ok") =>
        /\ pc # "exited" => stdout = <<>>
        /\ (pc = "exited" /\ raised # "") =>
              /\ PathLines = {}
              /\ Len(stdout) = 1 /\ stdout[1].kind = "error" /\ stdout[1].text = raised
              /\ exitStatus = 1
        /\ (pc = "exited" /\ raised = "") =>
              /\ exitStatus = 0
              /\ Len(stdout) = Len(exported)
              /\ \A k \in 1..Len(stdout) :
                    /\ stdout[k].kind = "path"
                    /\ stdout[k].text = exported[k].path
                    /\ stdout[k].text = ExpectedPath(k)
              /\ \A k \in 1..num_chunks : k <= Len(stdout)

C10_Witness ==
    /\ Splitting /\ caller = "main" /\ pc = "exited"
    /\ raised = "could not encode" /\ Len(exported) >= 2
    /\ stdout = <<Line("error", raised)>>

====
